---- MODULE Spec2Model ----
(***************************************************************************)
(* Model of qualcoder/select_items.py: the DialogSelectItems dialog and    *)
(* its ListModel adapter.                                                  *)
(*                                                                         *)
(* Python objects that the code aliases or replaces (the caller's list,    *)
(* data_refined, the list a ListModel wraps) live in a heap of list        *)
(* objects addressed by small integers; the dialog's fields hold           *)
(* references.  A reference of None is the integer -1.                     *)
(***************************************************************************)
EXTENDS Integers, Sequences, FiniteSets, TLC

\* ------------------------------------------------------------------ bounds
\* Longest Record Set the caller passes.
MaxLen == 3
\* Longest Record Set in which a record with an empty name is tried.
EmptyNameLen == 2

\* ------------------------------------------------------------------ inputs
\* A dictionary key that is not present in a record.
NoKey == "<no key>"
\* Display names by position in the caller's list.
NameAt == <<"A", "B", "C", "D", "E">>
\* The names record i of a list of n may carry: its own, none at all, and
\* (the first record of a short list) the empty string, which Python takes
\* as false.
NamesAt(i, n) ==
    {NameAt[i], NoKey} \cup (IF i = 1 /\ n <= EmptyNameLen THEN {""} ELSE {})
\* Group values the caller may use.
GroupValues == {"x", "y"}
\* The groups record i may carry: a group value, none at all, and (the first
\* record only) a group spelled like the literal fill_list compares against.
GroupsAt(i) == GroupValues \cup {NoKey} \cup (IF i = 1 THEN {"All"} ELSE {})
\* What the host application's translation function _() returns for "All".
Labels == {"All", "Tous"}
SelectionModes == {"single", "multiple"}

None == -1
\* The caller's list object; self.data aliases it.
CallerList == 0
ListIds == 0 .. 3
ModelIds == 1 .. 2

\* A record is a dict; id is the identity of the dict object (its position
\* in the caller's list), name and group are its values or NoKey.
RecordAt(i, n) ==
    [id : {i}, name : NamesAt(i, n), group : GroupsAt(i)]

\* The lists of n records whose first k records are chosen.
RECURSIVE RecordPrefixes(_, _)
RecordPrefixes(k, n) ==
    IF k = 0 THEN { <<>> }
    ELSE { Append(rs, r) : rs \in RecordPrefixes(k - 1, n), r \in RecordAt(k, n) }

RecordSets == UNION { RecordPrefixes(n, n) : n \in 0 .. MaxLen }

VARIABLES
    pc,             \* "new", "open", "accepted", "rejected", "done", "failed"
    heap,           \* list objects: reference -> sequence of records
    tr_All,         \* _("All") of the host application
    selection_mode, \* self.selection_mode
    data,           \* self.data (a reference)
    groups,         \* self.groups
    data_refined,   \* self.data_refined (a reference)
    model,          \* self.model: [id, list], list a reference
    comboBox,       \* self.ui.comboBox: [enabled, items, currentIndex]
    listView,       \* self.ui.listView: [model, currentIndex, selectedIndexes]
    warnings,       \* Message(...) boxes shown
    last_event      \* the handler that ran last and whether it raised

vars == <<pc, heap, tr_All, selection_mode, data, groups, data_refined, model,
          comboBox, listView, warnings, last_event>>

\* ----------------------------------------------------------------- helpers
Range(s) == { s[i] : i \in 1 .. Len(s) }

Min(S) == CHOOSE x \in S : \A y \in S : x <= y

\* A new list object: any address not held by a live object.
Alloc(live) == Min(ListIds \ live)

\* The lists still referenced after a handler ran.
Collect(h, refs) == [r \in (DOMAIN h) \cap refs |-> h[r]]

Store(h, ref, contents) ==
    [r \in (DOMAIN h) \cup {ref} |-> IF r = ref THEN contents ELSE h[r]]

NoModel == [id |-> 0, list |-> None]

\* Ui_Dialog_selectitems.setupUi: the filter control starts empty and disabled.
setupUi_comboBox == [enabled |-> FALSE, items |-> <<>>, currentIndex |-> -1]

\* Ui_Dialog_selectitems.setupUi: a list view with no model attached.
setupUi_listView == [model |-> 0, currentIndex |-> -1, selectedIndexes |-> <<>>]

\* QComboBox.currentText()
currentText(cb) ==
    IF cb.currentIndex = -1 THEN "" ELSE cb.items[cb.currentIndex + 1]

\* QComboBox.addItems on the empty control: the first item becomes current.
addItems(cb, items) ==
    [cb EXCEPT !.items = cb.items \o items,
               !.currentIndex = IF cb.currentIndex = -1 /\ Len(items) > 0
                                THEN 0 ELSE cb.currentIndex]

\* QAbstractItemView.setModel: the view gets a new selection model, so no
\* row is current and none is selected.
setModel(lv, m) == [model |-> m.id, currentIndex |-> -1, selectedIndexes |-> <<>>]

\* ListModel.rowCount
rowCount(m) == IF m.list = None THEN 0 ELSE Len(heap[m.list])

\* The ListModel attached to the list view (self.model is the only one alive).
AttachedRows == IF listView.model = 0 THEN 0 ELSE rowCount(model)

\* ------------------------------------------------------------- __init__
\* Lines 102-108: d['name'] raises KeyError on a record without the key.
NameLookupRaises(ds) == \E i \in 1 .. Len(ds) : ds[i].name = NoKey

\* Line 103: "not d['name']" is true of an empty name.
no_name_key(ds) == \E i \in 1 .. Len(ds) : ds[i].name = ""

\* Lines 105-108: the group of every record that has one, in order.
RECURSIVE CollectGroups(_)
CollectGroups(ds) ==
    IF ds = <<>> THEN <<>>
    ELSE IF Head(ds).group = NoKey THEN CollectGroups(Tail(ds))
         ELSE <<Head(ds).group>> \o CollectGroups(Tail(ds))

\* All orders in which the elements of a set can be listed.
RECURSIVE Orderings(_)
Orderings(S) ==
    IF S = {} THEN { <<>> }
    ELSE UNION { { <<x>> \o t : t \in Orderings(S \ {x}) } : x \in S }

\* A plausible slip: the list is kept as collected, duplicates and all.
list_keep_duplicates(gs) == { gs }

\* Line 113: list(set(self.groups)); the order of a set is arbitrary.
list_set(gs) == Orderings(Range(gs))

\* ------------------------------------------------------------ fill_list
\* A plausible slip: no copy, data_refined names the caller's own list.
copy_alias(h, ref, live) == [heap |-> h, ref |-> ref]

\* Line 130: copy.copy(self.data), a new list with the same records.
copy_copy(h, ref, live) ==
    LET a == Alloc(live) IN [heap |-> Store(h, a, h[ref]), ref |-> a]

\* Lines 138-140: d['group'] raises KeyError on a record without the key;
\* what was appended before stays in the list.
RECURSIVE FilterLoop(_, _, _)
FilterLoop(ds, grouper, acc) ==
    IF ds = <<>> THEN [list |-> acc, raised |-> FALSE]
    ELSE IF Head(ds).group = NoKey THEN [list |-> acc, raised |-> TRUE]
         ELSE FilterLoop(Tail(ds), grouper,
                         IF Head(ds).group = grouper
                         THEN Append(acc, Head(ds)) ELSE acc)

\* ListModel(data_list): a new adapter object holding the list it is given.
ListModel(old, ref) == [id |-> Min(ModelIds \ {old.id}), list |-> ref]

Live(refs) == refs \ {None}

\* fill_list as a function of the fields it reads; the fields it leaves.
fill_list(h, d, gs, cb, lv, mdl, dr) ==
    LET c == copy_copy(h, d, Live({CallerList, dr, mdl.list}))
        grouper == currentText(cb)
    IN  IF gs = <<>> \/ grouper = "All"
        THEN LET m == ListModel(mdl, c.ref)
             IN  [heap |-> Collect(c.heap, {CallerList, c.ref}),
                  data_refined |-> c.ref,
                  model |-> m,
                  listView |-> setModel(lv, m),
                  raised |-> FALSE]
        ELSE LET b == Alloc(Live({CallerList, c.ref, mdl.list}))
                 loop == FilterLoop(h[d], grouper, <<>>)
                 h2 == Store(c.heap, b, loop.list)
             IN  IF loop.raised
                 THEN [heap |-> Collect(h2, {CallerList, b, mdl.list}),
                       data_refined |-> b,
                       model |-> mdl,
                       listView |-> lv,
                       raised |-> TRUE]
                 ELSE LET m == ListModel(mdl, b)
                      IN  [heap |-> Collect(h2, {CallerList, b}),
                           data_refined |-> b,
                           model |-> m,
                           listView |-> setModel(lv, m),
                           raised |-> FALSE]

\* --------------------------------------------------------- get_selected
\* data_refined[row]: IndexError past the end (rows are never negative here).
RECURSIVE Lookup(_, _)
Lookup(lst, rows) ==
    IF rows = <<>> THEN [kind |-> "list", items |-> <<>>]
    ELSE IF Head(rows) >= Len(lst) THEN [kind |-> "IndexError", items |-> <<>>]
         ELSE LET rest == Lookup(lst, Tail(rows))
              IN  IF rest.kind = "IndexError" THEN rest
                  ELSE [kind |-> "list",
                        items |-> <<lst[Head(rows) + 1]>> \o rest.items]

\* A plausible variant: the query answers [] once the dialog was dismissed.
get_selected_empty_after_reject ==
    IF pc = "rejected" THEN [kind |-> "list", items |-> <<>>]
    ELSE IF selection_mode = "single"
    THEN LET current == listView.currentIndex
         IN  IF current = -1 THEN [kind |-> "list", items |-> <<>>]
             ELSE LET one == Lookup(heap[data_refined], <<current>>)
                  IN  IF one.kind = "IndexError" THEN one
                      ELSE [kind |-> "record", items |-> one.items]
    ELSE Lookup(heap[data_refined], listView.selectedIndexes)

\* What get_selected returns in the current state: [] , one record
\* (single mode), a list of records (multiple mode), or an IndexError.
get_selected ==
    IF selection_mode = "single"
    THEN LET current == listView.currentIndex
         IN  IF current = -1 THEN [kind |-> "list", items |-> <<>>]
             ELSE LET one == Lookup(heap[data_refined], <<current>>)
                  IN  IF one.kind = "IndexError" THEN one
                      ELSE [kind |-> "record", items |-> one.items]
    ELSE Lookup(heap[data_refined], listView.selectedIndexes)

\* ---------------------------------------------------------------- the view
Remove(s, x) == SelectSeq(s, LAMBDA y : y # x)

\* A plain click on row r: r is the current row and the only selected one.
click(lv, r) == [lv EXCEPT !.currentIndex = r, !.selectedIndexes = <<r>>]

\* Ctrl+click on row r: r is the current row and its selection is toggled;
\* SingleSelection keeps at most one row selected.
ctrl_click(lv, r) ==
    [lv EXCEPT !.currentIndex = r,
               !.selectedIndexes =
                   IF r \in Range(lv.selectedIndexes)
                   THEN Remove(lv.selectedIndexes, r)
                   ELSE IF selection_mode = "single" THEN <<r>>
                        ELSE Append(lv.selectedIndexes, r)]

\* ------------------------------------------------------------------ actions
Init ==
    /\ pc = "new"
    /\ \E rs \in RecordSets : heap = [r \in {CallerList} |-> rs]
    /\ tr_All \in Labels
    /\ selection_mode \in SelectionModes
    /\ data = None
    /\ groups = <<>>
    /\ data_refined = None
    /\ model = NoModel
    /\ comboBox = setupUi_comboBox
    /\ listView = setupUi_listView
    /\ warnings = {}
    /\ last_event = [op |-> "none", raised |-> FALSE]

\* DialogSelectItems.__init__ raising KeyError at line 103: no dialog.
ConstructRaisesOnName ==
    /\ pc = "new"
    /\ NameLookupRaises(heap[CallerList])
    /\ pc' = "failed"
    /\ data' = CallerList
    /\ warnings' = IF Len(heap[CallerList]) = 0 THEN {"empty"} ELSE {}
    /\ last_event' = [op |-> "construct", raised |-> TRUE]
    /\ UNCHANGED <<heap, tr_All, selection_mode, groups, data_refined, model,
                   comboBox, listView>>

\* DialogSelectItems.__init__ past the name check, fill_list included.
Construct ==
    /\ pc = "new"
    /\ ~NameLookupRaises(heap[CallerList])
    /\ LET ds == heap[CallerList]
           collected == CollectGroups(ds)
       IN  \E listed \in list_set(collected) :
             LET gs == IF collected = <<>> THEN <<>> ELSE <<tr_All>> \o listed
                 cb == IF collected = <<>> THEN comboBox
                       ELSE addItems([comboBox EXCEPT !.enabled = TRUE], gs)
                 f  == fill_list(heap, CallerList, gs, cb, listView, NoModel, None)
             IN  /\ data' = CallerList
                 /\ warnings' = (IF Len(ds) = 0 THEN {"empty"} ELSE {})
                               \cup (IF no_name_key(ds) THEN {"no name"} ELSE {})
                 /\ groups' = gs
                 /\ comboBox' = cb
                 /\ heap' = f.heap
                 /\ data_refined' = f.data_refined
                 /\ model' = f.model
                 /\ listView' = f.listView
                 /\ pc' = IF f.raised THEN "failed" ELSE "open"
                 /\ last_event' = [op |-> "construct", raised |-> f.raised]
    /\ UNCHANGED <<tr_All, selection_mode>>

\* The user picks entry k of the filter control: currentIndexChanged runs
\* fill_list; an exception in the slot goes to sys.excepthook and the
\* dialog stays open.
ComboChange(k) ==
    /\ pc = "open"
    /\ comboBox.enabled
    /\ k \in 0 .. Len(comboBox.items) - 1
    /\ k # comboBox.currentIndex
    /\ LET cb == [comboBox EXCEPT !.currentIndex = k]
           f  == fill_list(heap, data, groups, cb, listView, model, data_refined)
       IN  /\ comboBox' = cb
           /\ heap' = f.heap
           /\ data_refined' = f.data_refined
           /\ model' = f.model
           /\ listView' = f.listView
           /\ last_event' = [op |-> "filter", raised |-> f.raised]
    /\ UNCHANGED <<pc, tr_All, selection_mode, data, groups, warnings>>

Click(r) ==
    /\ pc = "open"
    /\ r \in 0 .. AttachedRows - 1
    /\ listView' = click(listView, r)
    /\ last_event' = [op |-> "highlight", raised |-> FALSE]
    /\ UNCHANGED <<pc, heap, tr_All, selection_mode, data, groups, data_refined,
                   model, comboBox, warnings>>

CtrlClick(r) ==
    /\ pc = "open"
    /\ r \in 0 .. AttachedRows - 1
    /\ listView' = ctrl_click(listView, r)
    /\ last_event' = [op |-> "highlight", raised |-> FALSE]
    /\ UNCHANGED <<pc, heap, tr_All, selection_mode, data, groups, data_refined,
                   model, comboBox, warnings>>

\* listView.doubleClicked is connected to accept (line 122).
DoubleClick(r) ==
    /\ pc = "open"
    /\ r \in 0 .. AttachedRows - 1
    /\ listView' = click(listView, r)
    /\ pc' = "accepted"
    /\ last_event' = [op |-> "highlight", raised |-> FALSE]
    /\ UNCHANGED <<heap, tr_All, selection_mode, data, groups, data_refined,
                   model, comboBox, warnings>>

\* QDialog.accept: the dialog closes, its widgets keep their state.
Accept ==
    /\ pc = "open"
    /\ pc' = "accepted"
    /\ UNCHANGED <<heap, tr_All, selection_mode, data, groups, data_refined,
                   model, comboBox, listView, warnings, last_event>>

\* QDialog.reject: the dialog closes, its widgets keep their state.
Reject ==
    /\ pc = "open"
    /\ pc' = "rejected"
    /\ UNCHANGED <<heap, tr_All, selection_mode, data, groups, data_refined,
                   model, comboBox, listView, warnings, last_event>>

Next ==
    \/ ConstructRaisesOnName
    \/ Construct
    \/ \E k \in 0 .. MaxLen : ComboChange(k)
    \/ \E r \in 0 .. MaxLen - 1 : Click(r)
    \/ \E r \in 0 .. MaxLen - 1 : CtrlClick(r)
    \/ \E r \in 0 .. MaxLen - 1 : DoubleClick(r)
    \/ Accept
    \/ Reject

Spec == Init /\ [][Next]_vars

\* ------------------------------------------------------------ vocabulary
\* The dialog was constructed (it is open or was closed by the user).
Opened == pc \in {"open", "accepted", "rejected"}

RecordSet == heap[CallerList]

FilteredView == heap[data_refined]

EmptyResult == [kind |-> "list", items |-> <<>>]

WithGroup(ds, g) == SelectSeq(ds, LAMBDA d : d.group = g)

GroupsOf(ds) == { ds[i].group : i \in 1 .. Len(ds) } \ {NoKey}

Mixed(ds) ==
    /\ \E i \in 1 .. Len(ds) : ds[i].group # NoKey
    /\ \E i \in 1 .. Len(ds) : ds[i].group = NoKey

NoDuplicates(s) == \A i, j \in 1 .. Len(s) : s[i] = s[j] => i = j

\* ------------------------------------------------------------------ C1
\* C1: after the user selects a real group g in the filter control,
\* fill_list has not raised and the Filtered View is exactly the records of
\* the Record Set whose group is g, in their original order.
C1_FilterByGroup ==
    (Opened /\ last_event.op = "filter" /\ comboBox.currentIndex > 0)
        => /\ ~last_event.raised
           /\ FilteredView = WithGroup(RecordSet, currentText(comboBox))

\* ------------------------------------------------------------------ C2
\* C2: whenever the sentinel entry (the first entry of the filter control)
\* is the selected one, or the Record Set has no group at all, the Filtered
\* View is the whole Record Set, whatever label _("All") gives the sentinel.
C2_AllShowsEverything ==
    (Opened /\ (groups = <<>> \/ comboBox.currentIndex = 0))
        => FilteredView = RecordSet

\* ------------------------------------------------------------------ C3
\* C3: in single mode get_selected returns the empty result when no row is
\* current, and the record at the current row of the Filtered View when one
\* is.
C3_SingleSelection ==
    (Opened /\ selection_mode = "single")
        => LET current == listView.currentIndex
           IN  IF current = -1 THEN get_selected = EmptyResult
               ELSE /\ current < Len(FilteredView)
                    /\ get_selected = [kind |-> "record",
                                       items |-> <<FilteredView[current + 1]>>]

\* ------------------------------------------------------------------ C4
\* C4: in multiple mode get_selected returns the records at the selected
\* rows of the Filtered View in selection order, none twice and none from
\* outside the Filtered View.
C4_MultipleSelection ==
    (Opened /\ selection_mode # "single")
        => LET rows == listView.selectedIndexes
           IN  /\ get_selected.kind = "list"
               /\ Len(get_selected.items) = Len(rows)
               /\ \A i \in 1 .. Len(rows) :
                     /\ rows[i] < Len(FilteredView)
                     /\ get_selected.items[i] = FilteredView[rows[i] + 1]
               /\ NoDuplicates(get_selected.items)
               /\ Range(get_selected.items) \subseteq Range(FilteredView)

\* ------------------------------------------------------------------ C5
\* C5: after a change of the group filter that no row highlight followed,
\* get_selected returns the empty result.
C5_FilterClearsSelection ==
    (Opened /\ last_event.op = "filter") => get_selected = EmptyResult

\* ------------------------------------------------------------------ C6
\* C6 as stated: once the user has cancelled the dialog, get_selected
\* returns the empty result.
C6_CancelYieldsEmpty == (pc = "rejected") => get_selected = EmptyResult

\* C6 as amended: cancelling keeps the selection.  The step that dismisses
\* the dialog changes neither what get_selected returns nor the caller's
\* Record Set.
C6_CancelKeepsSelection ==
    [][(pc = "open" /\ pc' = "rejected")
          => /\ get_selected' = get_selected
             /\ heap'[CallerList] = heap[CallerList]]_vars

\* C6 witness: a cancelled dialog with a row highlighted before the cancel.
C6_Witness == pc = "rejected" /\ get_selected.kind # "IndexError"
              /\ get_selected.items # <<>>

\* ------------------------------------------------------------------ C7
\* C7: with a record that lacks the "name" key, construction completes, the
\* warning is shown and the record occupies a row of the Filtered View.
C7_MissingNameNonFatal ==
    (pc # "new" /\ \E i \in 1 .. Len(RecordSet) : RecordSet[i].name = NoKey)
        => /\ pc # "failed"
           /\ "no name" \in warnings
           /\ (last_event.op = "construct" /\ comboBox.currentIndex <= 0)
                 => \A i \in 1 .. Len(RecordSet) :
                       RecordSet[i].name = NoKey
                         => RecordSet[i] \in Range(FilteredView)

\* ------------------------------------------------------------------ C8
\* C8: no step changes the caller's Record Set, and data_refined is never
\* the caller's own list object.
C8_CallerDataUntouched ==
    [][/\ heap'[CallerList] = heap[CallerList]
       /\ data_refined' # CallerList]_vars

\* C8 witness: the filter was changed to a real group, a row was
\* highlighted, and the Filtered View differs from the Record Set.
C8_Witness ==
    /\ pc = "accepted"
    /\ last_event.op = "highlight"
    /\ comboBox.currentIndex > 0
    /\ FilteredView # RecordSet
    /\ listView.selectedIndexes # <<>>

\* ------------------------------------------------------------------ C9
\* C9: after construction the filter control is enabled exactly when some
\* record has a group; then its entries are the sentinel followed by every
\* distinct group once, with the sentinel selected at startup; otherwise
\* the Group Set and the control are empty and the control is disabled.
C9_GroupControl ==
    Opened =>
        LET gvals == GroupsOf(RecordSet)
        IN  /\ comboBox.enabled <=> gvals # {}
            /\ comboBox.items = groups
            /\ gvals # {} =>
                  /\ groups[1] = tr_All
                  /\ Len(groups) = 1 + Cardinality(gvals)
                  /\ Range(Tail(groups)) = gvals
                  /\ last_event.op = "construct" => comboBox.currentIndex = 0
            /\ gvals = {} => groups = <<>> /\ comboBox.currentIndex = -1

\* C9 witness: a dialog just constructed over records that repeat a group.
C9_Witness ==
    /\ pc = "open"
    /\ last_event.op = "construct"
    /\ comboBox.enabled
    /\ Len(CollectGroups(RecordSet)) > Cardinality(GroupsOf(RecordSet))
    /\ Cardinality(GroupsOf(RecordSet)) > 1

\* ----------------------------------------------------------------- C10
\* C10: the adapter attached to the list view wraps the current Filtered
\* View: same row count, same record at every row.
C10_AdapterWrapsView ==
    Opened =>
        /\ listView.model = model.id
        /\ rowCount(model) = Len(FilteredView)
        /\ \A i \in 1 .. rowCount(model) : heap[model.list][i] = FilteredView[i]
====
